---- MODULE Spec2Model ----
(***************************************************************************)
(* Model of rmbuf (src/src/lib.rs): MBuf, a growable heap-backed byte      *)
(* buffer, and MBufPool, a HashMap from capacity class to a Vec of idle    *)
(* MBufs.                                                                  *)
(*                                                                         *)
(* The heap is the sequence of the regions the allocator has handed out:   *)
(* a region's index is the identity of the allocation (realloc resizes the *)
(* region and keeps its identity; the address it may move to is not        *)
(* observed by the program) and heap[r] is the size of its layout.         *)
(*                                                                         *)
(* An MBuf's raw pointer `buffer` is [region, bytes]: the region it points *)
(* to and the bytes written there, which only this MBuf can reach (MBuf is *)
(* neither Clone nor Copy and the pointer is private).  bytes is the       *)
(* written prefix of the region; offsets Len(bytes)+1..heap[region] are    *)
(* uninitialised memory.  Every write of the program starts at offset 0 or *)
(* at data_len, so the written part of a region is always a prefix         *)
(* (MemorySafe below states that no write leaves a gap or goes past the    *)
(* region, and that no view reads an unwritten byte).                      *)
(*                                                                         *)
(* lib.rs has no `impl Drop for MBuf` and never calls dealloc: dropping an *)
(* MBuf leaves its region allocated, so no region ever leaves the heap.    *)
(***************************************************************************)
EXTENDS Integers, Sequences, FiniteSets, TLC

VARIABLES
    heap,      \* Seq of sizes: the regions that are allocated
    pool,      \* MBufPool.pool: function from bucket key to Seq(MBuf)
    held,      \* Seq(MBuf): the buffers owned by callers
    hist,      \* per held buffer: how it has been used since MBuf::new
    call,      \* the last call made and what it returned
    panicked,  \* TRUE once a panic! has ended the process
    nnew,      \* allocations made by callers' MBuf::new and by take's miss
    ninit,     \* calls of initialize
    ntake      \* calls of take

vars == <<heap, pool, held, hist, call, panicked, nnew, ninit, ntake>>

----------------------------------------------------------------------------
(* Bounds of the model *)

MaxHeld == 1     \* buffers callers hold at once
MaxNew == 1      \* allocations outside initialize
MaxInit == 1     \* calls of initialize
MaxTake == 2     \* calls of take
MaxCap == 2      \* largest small capacity passed to MBuf::new
MaxData == 2     \* longest byte sequence passed to append / set_data
MaxLen == 3      \* SpecBuf: no write is tried that makes data_len larger
PoolMaxLen == 1  \* Spec: no write is tried that makes data_len larger

\* The byte sequences passed to append and set_data: one of each length up
\* to MaxData, no byte occurring twice among them.
Datas == {[j \in 1..n |-> 16 * n + j] : n \in 0..MaxData}

\* The bytes written through data_mut.
Bytes == {255}

----------------------------------------------------------------------------
(* The capacity ladder and the warm-up quotas of initialize, in the order  *)
(* of its loops: <<class, iterations>>.                                    *)

Quota == << <<1024, 100>>, <<2048, 100>>, <<4096, 20>>,
            <<8192, 10>>, <<16384, 5>>, <<32768, 2>> >>

Ladder == {Quota[j][1] : j \in 1..Len(Quota)}

NewCaps == (0..MaxCap) \cup {1024}

TakeSizes == {0, 32769} \cup Ladder \cup {k - 1 : k \in Ladder}

----------------------------------------------------------------------------
(* MBuf *)

NoBuf == [buffer |-> [region |-> 0, bytes |-> <<>>],
          data_len |-> 0, buffer_len |-> 0, pos |-> 0]

\* alloc(layout): a new region of `size` bytes.
alloc(h, size) == Append(h, size)

\* MBuf::new on its success path: the region just allocated, nothing written.
\* alloc with a zero-size layout (buffer_len = 0) is undefined behaviour; the
\* system allocator answers it with a null pointer (NewPanic) or with a
\* pointer that realloc accepts (this path, with a region of size 0).
\* Layout::from_size_align fails only for sizes near isize::MAX.
MBuf_new(h, buffer_len) ==
    [heap |-> alloc(h, buffer_len),
     buf  |-> [buffer |-> [region |-> Len(h) + 1, bytes |-> <<>>],
               data_len |-> 0, buffer_len |-> buffer_len, pos |-> 0]]

\* A realloc that hands back a region of the new size without the old bytes.
realloc_no_copy(h, ptr, new_size) ==
    [heap |-> [h EXCEPT ![ptr.region] = new_size],
     ptr  |-> [ptr EXCEPT !.bytes = [j \in 1..Len(@) |-> 0]]]

\* realloc(ptr, layout, new_size) returning non-null: the region is resized
\* and its first min(old, new) bytes are kept.
realloc(h, ptr, new_size) ==
    [heap |-> [h EXCEPT ![ptr.region] = new_size],
     ptr  |-> [ptr EXCEPT !.bytes =
                  SubSeq(@, 1, IF Len(@) < new_size THEN Len(@) ELSE new_size)]]

\* A grow that reallocates and forgets to store the new buffer_len.
grow_keeps_len(h, self, additional, realloc_ok) ==
    LET r == realloc(h, self.buffer, self.buffer_len + additional)
    IN IF ~realloc_ok
       THEN [heap |-> h, self |-> self, ok |-> FALSE]
       ELSE [heap |-> r.heap, self |-> [self EXCEPT !.buffer = r.ptr], ok |-> TRUE]

\* A grow that stores the new length before it looks at what realloc returned.
grow_commit_early(h, self, additional, realloc_ok) ==
    LET new_buffer_len == self.buffer_len + additional
        r == realloc(h, self.buffer, new_buffer_len)
    IN IF ~realloc_ok
       THEN [heap |-> h,
             self |-> [self EXCEPT !.buffer_len = new_buffer_len],
             ok   |-> FALSE]
       ELSE [heap |-> r.heap,
             self |-> [self EXCEPT !.buffer = r.ptr,
                                   !.buffer_len = new_buffer_len],
             ok   |-> TRUE]

\* MBuf::grow; realloc_ok is whether realloc returned a non-null pointer.
grow(h, self, additional, realloc_ok) ==
    LET new_buffer_len == self.buffer_len + additional
        r == realloc(h, self.buffer, new_buffer_len)
    IN IF ~realloc_ok
       THEN [heap |-> h, self |-> self, ok |-> FALSE]
       ELSE [heap |-> r.heap,
             self |-> [self EXCEPT !.buffer = r.ptr,
                                   !.buffer_len = new_buffer_len],
             ok   |-> TRUE]

\* ptr::copy_nonoverlapping(src, ptr.add(off), src.len()).
copy_nonoverlapping(ptr, off, src) ==
    LET hi == IF Len(ptr.bytes) > off + Len(src) THEN Len(ptr.bytes)
              ELSE off + Len(src)
    IN [ptr EXCEPT !.bytes =
           [j \in 1..hi |-> IF j > off /\ j <= off + Len(src) THEN src[j - off]
                            ELSE ptr.bytes[j]]]

\* An append whose capacity test is >= instead of >.
append_ge(h, self, d, realloc_ok) ==
    LET g == IF self.data_len + Len(d) >= self.buffer_len
             THEN grow(h, self, Len(d), realloc_ok)
             ELSE [heap |-> h, self |-> self, ok |-> TRUE]
    IN IF ~g.ok
       THEN [heap |-> g.heap, self |-> g.self, ret |-> "Err"]
       ELSE [heap |-> g.heap,
             self |-> [g.self EXCEPT
                          !.buffer = copy_nonoverlapping(@, g.self.data_len, d),
                          !.data_len = @ + Len(d)],
             ret  |-> "Ok"]

\* MBuf::append.
append(h, self, d, realloc_ok) ==
    LET g == IF self.data_len + Len(d) > self.buffer_len
             THEN grow(h, self, Len(d), realloc_ok)
             ELSE [heap |-> h, self |-> self, ok |-> TRUE]
    IN IF ~g.ok
       THEN [heap |-> g.heap, self |-> g.self, ret |-> "Err"]
       ELSE [heap |-> g.heap,
             self |-> [g.self EXCEPT
                          !.buffer = copy_nonoverlapping(@, g.self.data_len, d),
                          !.data_len = @ + Len(d)],
             ret  |-> "Ok"]

\* MBuf::data: the first data_len bytes of the region.
data(self) == SubSeq(self.buffer.bytes, 1, self.data_len)

\* A writable slice over the whole allocation instead of the valid bytes.
data_mut_cap(self) == 1..self.buffer_len

\* MBuf::data_mut: the same extent, writable; the offsets (from 1) it covers.
data_mut(self) == 1..self.data_len

\* A set_data that copies to the end of the valid data instead of offset 0.
set_data_at_len(self, d) ==
    [self EXCEPT !.buffer = copy_nonoverlapping(@, self.data_len, d),
                 !.data_len = Len(d),
                 !.pos = 0]

\* MBuf::set_data past its length check.
set_data(self, d) ==
    [self EXCEPT !.buffer = copy_nonoverlapping(@, 0, d),
                 !.data_len = Len(d),
                 !.pos = 0]

\* A clear that resets the position only.
clear_pos_only(self) == [self EXCEPT !.pos = 0]

\* MBuf::clear.
clear(self) == [self EXCEPT !.data_len = 0, !.pos = 0]

\* Dropping an MBuf: the struct has no Drop impl and dealloc is never
\* called, so the heap is left as it is.
drop(h, self) == h

----------------------------------------------------------------------------
(* MBufPool *)

\* MBufPool::new: an empty HashMap.
MBufPool_new == <<>>

\* HashMap::insert: the value under k is replaced (the old Vec is dropped).
insert(p, k, v) == (k :> v) @@ p

\* One iteration of a loop of initialize: self.pool.insert(k, vec![MBuf::new(k)]).
initialize_iter(s, k) ==
    LET n == MBuf_new(s.heap, k)
    IN [heap |-> n.heap, pool |-> insert(s.pool, k, <<n.buf>>)]

RECURSIVE initialize_loop(_, _, _)
\* for _ in 0..n { ... } for class k: the first n \div 2 iterations, then the
\* rest.  The test on t.pool makes the state left by the first half a value
\* before the second half starts from it.
initialize_loop(s, k, n) ==
    IF n = 0 THEN s
    ELSE IF n = 1 THEN initialize_iter(s, k)
    ELSE LET t == initialize_loop(s, k, n \div 2)
         IN IF k \in DOMAIN t.pool THEN initialize_loop(t, k, n - (n \div 2))
            ELSE t

RECURSIVE initialize_from(_, _)
\* the loops of initialize from the j-th on, in source order
initialize_from(s, j) ==
    IF j > Len(Quota) THEN s
    ELSE initialize_from(initialize_loop(s, Quota[j][1], Quota[j][2]), j + 1)

\* MBufPool::initialize.
initialize(h, p) == initialize_from([heap |-> h, pool |-> p], 1)

\* A size ladder whose comparisons are inclusive.
adjust_le(size) ==
    IF size <= 1024 THEN 1024
    ELSE IF size <= 2048 THEN 2048
    ELSE IF size <= 4096 THEN 4096
    ELSE IF size <= 8192 THEN 8192
    ELSE IF size <= 16384 THEN 16384
    ELSE IF size <= 32768 THEN 32768
    ELSE 0

\* take's size adjustment: 0 stands for the `return None` branch.
adjust(size) ==
    IF size < 1024 THEN 1024
    ELSE IF size < 2048 THEN 2048
    ELSE IF size < 4096 THEN 4096
    ELSE IF size < 8192 THEN 8192
    ELSE IF size < 16384 THEN 16384
    ELSE IF size < 32768 THEN 32768
    ELSE 0

\* A take that pops the oldest buffer of the bucket instead of the newest.
take_fifo(h, p, size) ==
    LET k == adjust(size)
    IN IF k = 0 THEN [heap |-> h, pool |-> p, ret |-> "None", buf |-> NoBuf]
       ELSE IF k \in DOMAIN p
       THEN IF Len(p[k]) > 0
            THEN [heap |-> h,
                  pool |-> [p EXCEPT ![k] = SubSeq(@, 2, Len(@))],
                  ret  |-> "Some", buf |-> p[k][1]]
            ELSE LET n == MBuf_new(h, k)
                 IN [heap |-> n.heap, pool |-> p, ret |-> "Some", buf |-> n.buf]
       ELSE [heap |-> h, pool |-> p, ret |-> "None", buf |-> NoBuf]

\* A take that hands out the newest buffer of the bucket and leaves it there.
take_no_pop(h, p, size) ==
    LET k == adjust(size)
    IN IF k = 0 THEN [heap |-> h, pool |-> p, ret |-> "None", buf |-> NoBuf]
       ELSE IF k \in DOMAIN p
       THEN IF Len(p[k]) > 0
            THEN [heap |-> h, pool |-> p,
                  ret  |-> "Some", buf |-> p[k][Len(p[k])]]
            ELSE LET n == MBuf_new(h, k)
                 IN [heap |-> n.heap, pool |-> p, ret |-> "Some", buf |-> n.buf]
       ELSE [heap |-> h, pool |-> p, ret |-> "None", buf |-> NoBuf]

\* A take that makes the bucket of the class when the pool has none.
take_creating(h, p, size) ==
    LET k == adjust(size)
    IN IF k = 0 THEN [heap |-> h, pool |-> p, ret |-> "None", buf |-> NoBuf]
       ELSE IF k \in DOMAIN p /\ Len(p[k]) > 0
       THEN [heap |-> h,
             pool |-> [p EXCEPT ![k] = SubSeq(@, 1, Len(@) - 1)],
             ret  |-> "Some", buf |-> p[k][Len(p[k])]]
       ELSE LET n == MBuf_new(h, k)
            IN [heap |-> n.heap,
                pool |-> IF k \in DOMAIN p THEN p ELSE insert(p, k, <<>>),
                ret  |-> "Some", buf |-> n.buf]

\* MBufPool::take.
take(h, p, size) ==
    LET k == adjust(size)
    IN IF k = 0 THEN [heap |-> h, pool |-> p, ret |-> "None", buf |-> NoBuf]
       ELSE IF k \in DOMAIN p
       THEN IF Len(p[k]) > 0
            THEN [heap |-> h,
                  pool |-> [p EXCEPT ![k] = SubSeq(@, 1, Len(@) - 1)],
                  ret  |-> "Some", buf |-> p[k][Len(p[k])]]
            ELSE LET n == MBuf_new(h, k)
                 IN [heap |-> n.heap, pool |-> p, ret |-> "Some", buf |-> n.buf]
       ELSE [heap |-> h, pool |-> p, ret |-> "None", buf |-> NoBuf]

\* A give that rounds the capacity up to a class the way take does.
give_rounded(h, p, buf) ==
    LET size == adjust(buf.buffer_len)
    IN IF size \in DOMAIN p
       THEN [heap |-> h, pool |-> [p EXCEPT ![size] = Append(@, buf)]]
       ELSE [heap |-> drop(h, buf), pool |-> p]

\* A give that clears the buffer before it pushes it.
give_clear(h, p, buf) ==
    LET size == buf.buffer_len
    IN IF size \in DOMAIN p
       THEN [heap |-> h, pool |-> [p EXCEPT ![size] = Append(@, clear(buf))]]
       ELSE [heap |-> drop(h, buf), pool |-> p]

\* MBufPool::give: the heap is the one left by dropping buf when no bucket
\* has its buffer_len as key.
give(h, p, buf) ==
    LET size == buf.buffer_len
    IN IF size \in DOMAIN p
       THEN [heap |-> h, pool |-> [p EXCEPT ![size] = Append(@, buf)]]
       ELSE [heap |-> drop(h, buf), pool |-> p]

----------------------------------------------------------------------------
(* The callers *)

Remove(s, i) == SubSeq(s, 1, i - 1) \o SubSeq(s, i + 1, Len(s))

NoData == <<>>

Called(op, i, size, d, ret) ==
    [op |-> op, i |-> i, size |-> size, d |-> d, ret |-> ret]

\* hist[i]: since what event the held buffer has seen nothing but successful
\* appends ("new": the caller's MBuf::new, "clear": a clear, "": neither),
\* cap0 its capacity at that event, cat the concatenation of the sequences
\* appended since.
Since(ev, c) == [since |-> ev, cap0 |-> c, cat |-> <<>>]
Used == Since("", 0)

Init ==
    /\ heap = <<>>
    /\ pool = MBufPool_new
    /\ held = <<>>
    /\ hist = <<>>
    /\ call = Called("none", 0, 0, NoData, "")
    /\ panicked = FALSE
    /\ nnew = 0
    /\ ninit = 0
    /\ ntake = 0

\* let b = MBuf::new(c);
New(c) ==
    /\ ~panicked /\ Len(held) < MaxHeld /\ nnew < MaxNew
    /\ LET n == MBuf_new(heap, c)
       IN /\ heap' = n.heap
          /\ held' = Append(held, n.buf)
    /\ hist' = Append(hist, Since("new", c))
    /\ call' = Called("new", Len(held) + 1, c, NoData, "Ok")
    /\ nnew' = nnew + 1
    /\ UNCHANGED <<pool, panicked, ninit, ntake>>

\* MBuf::new when alloc returns null: panic!("Failed to allocate buffer").
NewPanic(c) ==
    /\ ~panicked /\ Len(held) < MaxHeld /\ nnew < MaxNew
    /\ panicked' = TRUE
    /\ call' = Called("new", 0, c, NoData, "panic")
    /\ UNCHANGED <<heap, pool, held, hist, nnew, ninit, ntake>>

\* held[i].append(d)
AppendCall(i, d, realloc_ok) ==
    /\ ~panicked /\ i \in 1..Len(held)
    /\ LET r == append(heap, held[i], d, realloc_ok)
       IN /\ heap' = r.heap
          /\ held' = [held EXCEPT ![i] = r.self]
          /\ hist' = [hist EXCEPT ![i] =
                         IF r.ret = "Ok" /\ @.since # ""
                         THEN [@ EXCEPT !.cat = @ \o d]
                         ELSE Used]
          /\ call' = Called("append", i, 0, d, r.ret)
    /\ UNCHANGED <<pool, panicked, nnew, ninit, ntake>>

\* held[i].set_data(d) with d.len() <= buffer_len
SetData(i, d) ==
    /\ ~panicked /\ i \in 1..Len(held)
    /\ Len(d) <= held[i].buffer_len
    /\ held' = [held EXCEPT ![i] = set_data(@, d)]
    /\ hist' = [hist EXCEPT ![i] = Used]
    /\ call' = Called("set_data", i, 0, d, "Ok")
    /\ UNCHANGED <<heap, pool, panicked, nnew, ninit, ntake>>

\* A set_data that copies what fits of d and only then finds d too long.
SetDataLatePanic(i, d) ==
    /\ ~panicked /\ i \in 1..Len(held)
    /\ Len(d) > held[i].buffer_len
    /\ held' = [held EXCEPT ![i] = set_data(@, SubSeq(d, 1, @.buffer_len))]
    /\ panicked' = TRUE
    /\ call' = Called("set_data", i, 0, d, "panic")
    /\ UNCHANGED <<heap, pool, hist, nnew, ninit, ntake>>

\* held[i].set_data(d) with d.len() > buffer_len:
\* panic!("Data length exceeds buffer capacity") before anything is written.
SetDataPanic(i, d) ==
    /\ ~panicked /\ i \in 1..Len(held)
    /\ Len(d) > held[i].buffer_len
    /\ panicked' = TRUE
    /\ call' = Called("set_data", i, 0, d, "panic")
    /\ UNCHANGED <<heap, pool, held, hist, nnew, ninit, ntake>>

\* held[i].clear()
Clear(i) ==
    /\ ~panicked /\ i \in 1..Len(held)
    /\ held' = [held EXCEPT ![i] = clear(@)]
    /\ hist' = [hist EXCEPT ![i] = Since("clear", held[i].buffer_len)]
    /\ call' = Called("clear", i, 0, NoData, "Ok")
    /\ UNCHANGED <<heap, pool, panicked, nnew, ninit, ntake>>

\* held[i].data_mut()[j - 1] = b
DataMutWrite(i, j, b) ==
    /\ ~panicked /\ i \in 1..Len(held)
    /\ j \in data_mut(held[i])
    /\ held' = [held EXCEPT ![i].buffer.bytes[j] = b]
    /\ hist' = [hist EXCEPT ![i] = Used]
    /\ call' = Called("data_mut", i, j, <<b>>, "Ok")
    /\ UNCHANGED <<heap, pool, panicked, nnew, ninit, ntake>>

\* drop(held[i])
Drop(i) ==
    /\ ~panicked /\ i \in 1..Len(held)
    /\ heap' = drop(heap, held[i])
    /\ held' = Remove(held, i)
    /\ hist' = Remove(hist, i)
    /\ call' = Called("drop", i, 0, NoData, "Ok")
    /\ UNCHANGED <<pool, panicked, nnew, ninit, ntake>>

\* pool.initialize()
Initialize ==
    /\ ~panicked /\ ninit < MaxInit
    /\ LET r == initialize(heap, pool)
       IN /\ heap' = r.heap
          /\ pool' = r.pool
    /\ ninit' = ninit + 1
    /\ call' = Called("initialize", 0, 0, NoData, "Ok")
    /\ UNCHANGED <<held, hist, panicked, nnew, ntake>>

\* let b = pool.take(size);
Take(size) ==
    /\ ~panicked /\ Len(held) < MaxHeld /\ ntake < MaxTake
    /\ ntake' = ntake + 1
    /\ LET r == take(heap, pool, size)
       IN /\ nnew + (Len(r.heap) - Len(heap)) <= MaxNew
          /\ nnew' = nnew + (Len(r.heap) - Len(heap))
          /\ heap' = r.heap
          /\ pool' = r.pool
          /\ held' = IF r.ret = "Some" THEN Append(held, r.buf) ELSE held
          /\ hist' = IF r.ret = "Some" THEN Append(hist, Used) ELSE hist
          /\ call' = Called("take", IF r.ret = "Some" THEN Len(held) + 1 ELSE 0,
                            size, NoData, r.ret)
    /\ UNCHANGED <<panicked, ninit>>

\* pool.give(held[i])
Give(i) ==
    /\ ~panicked /\ i \in 1..Len(held)
    /\ LET r == give(heap, pool, held[i])
       IN /\ heap' = r.heap
          /\ pool' = r.pool
    /\ held' = Remove(held, i)
    /\ hist' = Remove(hist, i)
    /\ call' = Called("give", i, held[i].buffer_len, NoData, "Ok")
    /\ UNCHANGED <<panicked, nnew, ninit, ntake>>

\* The program: callers and the pool.
Next ==
    \/ \E c \in NewCaps : New(c)
    \/ \E c \in NewCaps : NewPanic(c)
    \/ \E i \in 1..Len(held), d \in Datas, ok \in BOOLEAN :
          held[i].data_len + Len(d) <= PoolMaxLen /\ AppendCall(i, d, ok)
    \/ \E i \in 1..Len(held), d \in Datas :
          Len(d) <= PoolMaxLen /\ SetData(i, d)
    \/ \E i \in 1..Len(held), d \in Datas : SetDataPanic(i, d)
    \/ \E i \in 1..Len(held) : Clear(i)
    \/ \E i \in 1..Len(held), j \in 1..PoolMaxLen, b \in Bytes :
          DataMutWrite(i, j, b)
    \/ \E i \in 1..Len(held) : Drop(i)
    \/ Initialize
    \/ \E size \in TakeSizes : Take(size)
    \/ \E i \in 1..Len(held) : Give(i)

Spec == Init /\ [][Next]_vars

\* Callers that use buffers of their own and no pool, with longer data.
NextBuf ==
    \/ \E c \in NewCaps : New(c)
    \/ \E c \in NewCaps : NewPanic(c)
    \/ \E i \in 1..Len(held), d \in Datas, ok \in BOOLEAN :
          held[i].data_len + Len(d) <= MaxLen /\ AppendCall(i, d, ok)
    \/ \E i \in 1..Len(held), d \in Datas : SetData(i, d)
    \/ \E i \in 1..Len(held), d \in Datas : SetDataPanic(i, d)
    \/ \E i \in 1..Len(held) : Clear(i)
    \/ \E i \in 1..Len(held), j \in 1..MaxLen, b \in Bytes :
          DataMutWrite(i, j, b)
    \/ \E i \in 1..Len(held) : Drop(i)

SpecBuf == Init /\ [][NextBuf]_vars

----------------------------------------------------------------------------
(* Well-formedness of the model's representation *)

AllBufs == {held[i] : i \in 1..Len(held)}
           \cup UNION {{pool[k][j] : j \in 1..Len(pool[k])} : k \in DOMAIN pool}

\* No view reads an unwritten byte, no write has gone past its region, and
\* the layout grow and realloc are given is the region's.
MemorySafe ==
    \A b \in AllBufs :
        /\ b.buffer.region \in 1..Len(heap)
        /\ b.data_len <= Len(b.buffer.bytes)
        /\ Len(b.buffer.bytes) <= heap[b.buffer.region]
        /\ heap[b.buffer.region] = b.buffer_len

----------------------------------------------------------------------------
(* Claims *)

Initialized == DOMAIN pool = Ladder

\* C1: in every reachable state every buffer, held by a caller or idle in
\* the pool, has 0 <= pos <= data_len <= buffer_len.
C1_BufferBounds ==
    \A b \in AllBufs :
        0 <= b.pos /\ b.pos <= b.data_len /\ b.data_len <= b.buffer_len

\* A buffer that was given to the pool with data in it has been taken again.
C1_Witness ==
    /\ call.op = "take" /\ call.ret = "Some"
    /\ held[call.i].data_len > 0

\* An append that returned Ok although data_len + len(d) exceeded buffer_len.
GrowingAppend ==
    /\ call'.op = "append" /\ call'.ret = "Ok"
    /\ held[call'.i].data_len + Len(call'.d) > held[call'.i].buffer_len

\* C2: a successful append(d) with data_len + len(d) > buffer_len raises
\* buffer_len by exactly len(d) and data_len by len(d), and data() is then
\* the previous data() followed by d.
C2_GrowthAppend ==
    [][GrowingAppend =>
         LET i == call'.i
             d == call'.d
         IN /\ held'[i].buffer_len = held[i].buffer_len + Len(d)
            /\ held'[i].data_len = held[i].data_len + Len(d)
            /\ data(held'[i]) = data(held[i]) \o d]_vars

\* A buffer made by new(c) holding data was grown by its last append, by
\* exactly the length of the appended sequence.
C2_Witness ==
    /\ call.op = "append" /\ call.ret = "Ok" /\ Len(call.d) > 0
    /\ hist[call.i].since = "new"
    /\ held[call.i].buffer_len = hist[call.i].cap0 + Len(call.d)
    /\ held[call.i].data_len > Len(call.d)

\* C3: a buffer made by new(c) that has only been appended to, with
\* appended sequences of total length <= c, still has buffer_len = c, and
\* its data() is the concatenation of the appended sequences in order.
C3_AppendsThatFit ==
    \A i \in 1..Len(held) :
        (hist[i].since = "new" /\ Len(hist[i].cat) <= hist[i].cap0) =>
            /\ held[i].buffer_len = hist[i].cap0
            /\ data(held[i]) = hist[i].cat

\* Two non-empty appends have fitted in the capacity given to new.
C3_Witness ==
    /\ call.op = "append" /\ call.ret = "Ok" /\ Len(call.d) > 0
    /\ hist[call.i].since = "new"
    /\ Len(hist[call.i].cat) > Len(call.d)
    /\ Len(hist[call.i].cat) <= hist[call.i].cap0

\* C4: on an initialized pool, take(r) returns None if and only if r > 32768.
C4_NoneIffOverLargest ==
    (call.op = "take" /\ Initialized) =>
        (call.ret = "None" <=> call.size > 32768)

\* The smallest class of the ladder that is >= r.
SmallestClassAtLeast(r) ==
    CHOOSE k \in Ladder : k >= r /\ \A k2 \in Ladder : k2 >= r => k <= k2

\* C5: a buffer returned by take(r) has as capacity the smallest class of the
\* ladder that is >= r.
C5_SmallestClass ==
    (call.op = "take" /\ call.ret = "Some") =>
        held[call.i].buffer_len = SmallestClassAtLeast(call.size)

\* C6: right after initialize() on a new pool, each class's bucket holds its
\* quota of idle buffers: 100, 100, 20, 10, 5 and 2.
C6_QuotaPerClass ==
    call.op = "initialize" =>
        \A j \in 1..Len(Quota) :
            /\ Quota[j][1] \in DOMAIN pool
            /\ Len(pool[Quota[j][1]]) = Quota[j][2]

\* C7: every buffer stored in the pool under bucket key k has buffer_len = k.
C7_BucketKeyIsCapacity ==
    \A k \in DOMAIN pool :
        \A j \in 1..Len(pool[k]) : pool[k][j].buffer_len = k

\* A caller has given a buffer holding data to the pool, which keeps it in a
\* bucket on top of the buffer initialize put there.
C7_Witness ==
    /\ call.op = "give" /\ call.size \in DOMAIN pool
    /\ Len(pool[call.size]) >= 2
    /\ pool[call.size][Len(pool[call.size])].data_len > 0

\* The regions some live MBuf points to.
Owned == {b.buffer.region : b \in AllBufs}

\* C8: every allocated region is owned by a live buffer: the storage of a
\* destroyed buffer has been released.
C8_NoLeak == \A r \in 1..Len(heap) : r \in Owned

\* C9: set_data(d) with len(d) <= buffer_len leaves data() = d,
\* data_len = len(d), pos = 0 and buffer_len as it was.
C9_SetData ==
    [][(call'.op = "set_data" /\ call'.ret = "Ok") =>
         LET i == call'.i
             d == call'.d
         IN Len(d) <= held[i].buffer_len =>
              /\ data(held'[i]) = d
              /\ held'[i].data_len = Len(d)
              /\ held'[i].pos = 0
              /\ held'[i].buffer_len = held[i].buffer_len]_vars

\* set_data has overwritten the front of a buffer that held longer data.
C9_Witness ==
    /\ call.op = "set_data" /\ call.ret = "Ok" /\ Len(call.d) > 0
    /\ data(held[call.i]) = call.d
    /\ Len(held[call.i].buffer.bytes) > Len(call.d)

\* C10: clear() sets data_len and pos to 0 and leaves buffer_len as it was,
\* so data() is empty; the append(d) that follows it leaves data() = d.
C10_Clear ==
    [][/\ call'.op = "clear" =>
            LET i == call'.i
            IN /\ held'[i].data_len = 0
               /\ held'[i].pos = 0
               /\ held'[i].buffer_len = held[i].buffer_len
               /\ data(held'[i]) = <<>>
       /\ (call.op = "clear" /\ call'.op = "append" /\ call'.ret = "Ok"
             /\ call'.i = call.i) =>
            data(held'[call'.i]) = call'.d]_vars

\* A buffer that held data was cleared, and the first append after the clear
\* has written over the front of the old bytes.
C10_Witness ==
    /\ call.op = "append" /\ call.ret = "Ok" /\ Len(call.d) > 0
    /\ hist[call.i].since = "clear"
    /\ hist[call.i].cat = call.d
    /\ Len(held[call.i].buffer.bytes) > held[call.i].data_len

\* C11: give(b) for a buffer whose buffer_len is the key of no bucket leaves
\* every bucket as it was, and no later take returns b: a region that no
\* buffer of a caller or of the pool points to is never handed out again.
C11_GiveWithoutBucket ==
    [][/\ (call'.op = "give" /\ call'.size \notin DOMAIN pool) =>
            /\ pool' = pool
            /\ held[call'.i].buffer.region \notin Owned'
       /\ Owned' \cap (1..Len(heap)) \subseteq Owned]_vars

\* On an initialized pool a caller has given a buffer holding data whose
\* capacity is no class, while a take can still follow.
C11_Witness ==
    /\ call.op = "give" /\ Initialized /\ call.size \notin DOMAIN pool
    /\ call.size > 0
    /\ ntake < MaxTake

\* C12: on an initialized pool give(b) with buffer_len a class k pushes b on
\* top of bucket k and changes no other bucket; the take resolving to k that
\* comes right after returns that top buffer, of capacity k, and leaves the
\* bucket without it, that is as it was before the give.
C12_GiveThenTake ==
    [][/\ (call'.op = "give" /\ Initialized /\ call'.size \in DOMAIN pool) =>
            pool' = [pool EXCEPT ![call'.size] = Append(@, held[call'.i])]
       /\ (call.op = "give" /\ Initialized /\ call.size \in DOMAIN pool
             /\ call'.op = "take" /\ adjust(call'.size) = call.size) =>
            LET k == call.size
            IN /\ call'.ret = "Some"
               /\ held'[call'.i] = pool[k][Len(pool[k])]
               /\ held'[call'.i].buffer_len = k
               /\ pool' = [pool EXCEPT ![k] = SubSeq(@, 1, Len(@) - 1)]]_vars

\* The first take ever made has returned a buffer holding data, which a
\* caller made and gave, and has left the bucket with the buffer initialize
\* put there.
C12_Witness ==
    /\ call.op = "take" /\ call.ret = "Some" /\ ntake = 1
    /\ held[call.i].data_len > 0
    /\ Len(pool[held[call.i].buffer_len]) = 1

\* C13: set_data(d) with d longer than buffer_len panics, and the panic is
\* raised before the storage, data_len, buffer_len or pos of the buffer is
\* written; nothing runs after the panic.
C13_SetDataTooLong ==
    [][/\ (call'.op = "set_data" /\ Len(call'.d) > held[call'.i].buffer_len) =>
            /\ call'.ret = "panic" /\ panicked'
            /\ held' = held /\ heap' = heap
       /\ panicked => vars' = vars]_vars

\* set_data has panicked on a buffer that holds data.
C13_Witness ==
    /\ call.op = "set_data" /\ call.ret = "panic" /\ panicked
    /\ held[call.i].data_len > 0
    /\ Len(call.d) > held[call.i].buffer_len

\* The regions of the buffers the callers hold, one entry per buffer.
HeldRegions == [i \in 1..Len(held) |-> held[i].buffer.region]

\* The positions of the pool: a class and an index of its bucket.
PoolEntries == UNION {{<<k, j>> : j \in 1..Len(pool[k])} : k \in DOMAIN pool}

\* C14: a storage region has one owner: no two callers' buffers, no caller's
\* buffer and pool entry, and no two pool entries point to the same region.
C14_SingleOwner ==
    /\ \A i, j \in 1..Len(held) : i # j => HeldRegions[i] # HeldRegions[j]
    /\ \A i \in 1..Len(held) : \A e \in PoolEntries :
            HeldRegions[i] # pool[e[1]][e[2]].buffer.region
    /\ \A e, f \in PoolEntries :
            e # f => pool[e[1]][e[2]].buffer.region # pool[f[1]][f[2]].buffer.region

\* A caller holds a buffer it took, for the second time, from a bucket that
\* still holds another buffer.
C14_Witness ==
    /\ call.op = "take" /\ call.ret = "Some" /\ ntake = 2
    /\ Len(pool[held[call.i].buffer_len]) = 1
    /\ PoolEntries # {}

\* C15: the size comparisons of take are strict: on an initialized pool a
\* request equal to one of the classes 1024..16384 is served with a buffer of
\* twice that capacity (take(1024) gives 2048), and take(1023) gives 1024.
C15_StrictLadder ==
    (Initialized /\ call.op = "take") =>
        /\ call.size \in Ladder \ {32768} =>
               /\ call.ret = "Some"
               /\ held[call.i].buffer_len = 2 * call.size
        /\ call.size = 1023 =>
               /\ call.ret = "Some"
               /\ held[call.i].buffer_len = 1024

\* take(16384) has returned a buffer of capacity 32768.
C15_Witness ==
    /\ Initialized /\ call.op = "take" /\ call.size = 16384
    /\ call.ret = "Some" /\ held[call.i].buffer_len = 32768

\* The largest size take is specified to serve.
LargestClass == 32768

\* C16: on an initialized pool a take whose class has an empty bucket returns
\* a buffer on a newly allocated region, with buffer_len the class, data_len 0
\* and pos 0, and leaves the bucket empty; so a take of a supported size, one
\* that does not exceed the largest class, returns Some whatever the buckets
\* hold.
C16_PoolMiss ==
    [][(call'.op = "take" /\ Initialized /\ call'.size <= LargestClass) =>
          LET k == adjust(call'.size)
          IN /\ call'.ret = "Some"
             /\ pool[k] = <<>> =>
                   /\ Len(heap') = Len(heap) + 1
                   /\ heap'[Len(heap')] = k
                   /\ held'[call'.i] =
                         [buffer |-> [region |-> Len(heap'), bytes |-> <<>>],
                          data_len |-> 0, buffer_len |-> k, pos |-> 0]
                   /\ pool' = pool]_vars

\* C17: the pool never resets a buffer. give stores the buffer as the caller
\* left it, an entry of a bucket is changed by no call while it is there, and
\* take returns the entry it pops as it is: the same data_len, pos and bytes.
\* A buffer take returns is therefore empty only when it is on a new region
\* or was empty when it was given.
C17_NoReset ==
    [][/\ (call'.op = "give" /\ call'.size \in DOMAIN pool) =>
            LET b == pool'[call'.size]
            IN b[Len(b)] = held[call'.i]
       /\ (call'.op = "take" /\ call'.ret = "Some") =>
            LET k == adjust(call'.size)
                t == held'[call'.i]
            IN IF pool[k] # <<>>
               THEN t = pool[k][Len(pool[k])]
               ELSE t.buffer.region > Len(heap) /\ t.data_len = 0
       /\ call'.op # "initialize" =>
            \A k \in DOMAIN pool :
               /\ k \in DOMAIN pool'
               /\ \A j \in 1..Len(pool[k]) :
                     j <= Len(pool'[k]) => pool'[k][j] = pool[k][j]]_vars

\* take has returned a buffer whose valid bytes are the byte a caller wrote
\* through data_mut before giving it.
C17_Witness ==
    /\ call.op = "take" /\ call.ret = "Some"
    /\ data(held[call.i]) = <<255>>
    /\ held[call.i].pos = 0

\* C18: data and data_mut cover the first data_len bytes of the storage and
\* no more; a write through data_mut is at an offset below data_len and
\* leaves data_len, buffer_len, pos, the region and every byte at an offset
\* of data_len or more as they were.
C18_DataMutFrame ==
    [][call'.op = "data_mut" =>
          LET b == held[call'.i]
              c == held'[call'.i]
          IN /\ Len(data(b)) = b.data_len
             /\ data_mut(b) = DOMAIN data(b)
             /\ call'.size \in 1..b.data_len
             /\ c.data_len = b.data_len /\ c.buffer_len = b.buffer_len
             /\ c.pos = b.pos /\ c.buffer.region = b.buffer.region
             /\ Len(c.buffer.bytes) = Len(b.buffer.bytes)
             /\ \A j \in 1..Len(b.buffer.bytes) :
                   (j > b.data_len \/ j # call'.size) =>
                       c.buffer.bytes[j] = b.buffer.bytes[j]
             /\ heap' = heap]_vars

\* A byte has been written through data_mut in a buffer whose storage holds
\* written bytes past data_len.
C18_Witness ==
    /\ call.op = "data_mut"
    /\ Len(held[call.i].buffer.bytes) > held[call.i].data_len
    /\ held[call.i].buffer.bytes[call.size] = 255

\* C19: when realloc fails inside append, append returns Err and the buffer
\* is as it was before the call: its region and bytes, data_len, buffer_len
\* and pos, and the heap, are unchanged, and the program goes on. Err is
\* returned only by an append that had to grow.
C19_FailedAppend ==
    [][(call'.op = "append" /\ call'.ret = "Err") =>
          /\ held' = held /\ heap' = heap
          /\ ~panicked'
          /\ held[call'.i].data_len + Len(call'.d) > held[call'.i].buffer_len]_vars

\* An append that needed more room has returned Err on a buffer holding data.
C19_Witness ==
    /\ call.op = "append" /\ call.ret = "Err"
    /\ held[call.i].data_len > 0
    /\ held[call.i].data_len = held[call.i].buffer_len

\* C20: take and give neither make nor remove a bucket key. On a pool that
\* was never initialized take returns None for every size and takes nothing
\* from the heap, give drops every buffer, and the pool stays empty; once
\* initialized, the keys are the six classes after every later call.
C20_KeysFixed ==
    [][/\ call'.op \in {"take", "give"} => DOMAIN pool' = DOMAIN pool
       /\ ninit = 0 => DOMAIN pool = {}
       /\ (DOMAIN pool = {} /\ call'.op = "take") =>
            /\ call'.ret = "None"
            /\ pool' = pool /\ held' = held /\ heap' = heap
       /\ (DOMAIN pool = {} /\ call'.op = "give") =>
            /\ pool' = pool
            /\ held[call'.i].buffer.region \notin Owned'
       /\ Initialized => DOMAIN pool' = Ladder]_vars

\* A pool that was never initialized has answered None to a take of a size
\* below the largest class, after a caller made a buffer and let go of it.
C20_Witness ==
    /\ ninit = 0 /\ DOMAIN pool = {}
    /\ call.op = "take" /\ call.ret = "None" /\ adjust(call.size) # 0
    /\ nnew = 1 /\ held = <<>>

====
